---- MODULE Spec2Model ----
(***************************************************************************)
(* The request pipeline of solvebio/client.py: SolveTokenAuth (credential  *)
(* resolution) and SolveClient.get/post/request (option merging, URL       *)
(* resolution, dispatch, outcome classification).                          *)
(*                                                                         *)
(* Python values are records [t |-> type name, v |-> printed value].       *)
(* Strings on which the code does character work (the API host, the url)   *)
(* are sequences of one-character strings; None and "" are both the empty  *)
(* sequence there, since the code only tests their truthiness.             *)
(***************************************************************************)
EXTENDS Naturals, Sequences, FiniteSets

VARIABLES
    api_key,        \* solvebio.api_key (process-wide)
    api_host,       \* solvebio.api_host (process-wide)
    store,          \* what get_credentials() does when called
    self_api_host,  \* SolveClient._api_host
    heap,           \* the dict objects that outlive a call, by name
    pc,             \* "idle", "waiting" (blocked in requests.request), "done"
    call,           \* the arguments of the operation in progress
    raw,            \* the local `raw` of request()
    sent,           \* the request handed to the transport, in flight
    transportCalls, \* invocations of requests.request by the current call
    response,       \* what the transport returned to the current call
    exc,            \* the exception the transport raised in the current call
    outcome,        \* how the last operation ended
    log             \* log records emitted by the current call

vars == <<api_key, api_host, store, self_api_host, heap, pc, call, raw, sent,
          transportCalls, response, exc, outcome, log>>

-----------------------------------------------------------------------------
(* Bounds of the model. *)

\* Longest path, in segments, of the urls the callers pass.
MaxSegments == 2

-----------------------------------------------------------------------------
(* Character strings and the urlparse functions that urljoin is made of    *)
(* (Python 2.7 urlparse module, imported at client.py line 13).  The       *)
(* alphabet of the model has no "?", "#", ";" or ".", so the query,        *)
(* fragment, params and dot-segment steps of urljoin leave every string    *)
(* of the model unchanged and are not written out.                         *)

Http == <<"h", "t", "t", "p">>

uses_relative ==
    { <<"f", "t", "p">>, <<"h", "t", "t", "p">>, <<"g", "o", "p", "h", "e", "r">>,
      <<"n", "n", "t", "p">>, <<"i", "m", "a", "p">>, <<"w", "a", "i", "s">>,
      <<"f", "i", "l", "e">>, <<"h", "t", "t", "p", "s">>, <<"s", "h", "t", "t", "p">>,
      <<"m", "m", "s">>, <<"p", "r", "o", "s", "p", "e", "r", "o">>, <<"r", "t", "s", "p">>,
      <<"r", "t", "s", "p", "u">>, <<>>, <<"s", "f", "t", "p">>,
      <<"s", "v", "n">>, <<"s", "v", "n", "+", "s", "s", "h">> }


uses_netloc ==
    { <<"f", "t", "p">>, <<"h", "t", "t", "p">>, <<"g", "o", "p", "h", "e", "r">>,
      <<"n", "n", "t", "p">>, <<"t", "e", "l", "n", "e", "t">>, <<"i", "m", "a", "p">>,
      <<"w", "a", "i", "s">>, <<"f", "i", "l", "e">>, <<"m", "m", "s">>,
      <<"h", "t", "t", "p", "s">>, <<"s", "h", "t", "t", "p">>, <<"s", "n", "e", "w", "s">>,
      <<"p", "r", "o", "s", "p", "e", "r", "o">>, <<"r", "t", "s", "p">>, <<"r", "t", "s", "p", "u">>,
      <<"r", "s", "y", "n", "c">>, <<>>, <<"s", "v", "n">>,
      <<"s", "v", "n", "+", "s", "s", "h">>, <<"s", "f", "t", "p">>, <<"n", "f", "s">>,
      <<"g", "i", "t">>, <<"g", "i", "t", "+", "s", "s", "h">> }


scheme_chars ==
    { "a", "b", "c", "d", "e", "f", "g", "h", "i", "j", "k", "l", "m",
      "n", "o", "p", "q", "r", "s", "t", "u", "v", "w", "x", "y", "z",
      "A", "B", "C", "D", "E", "F", "G", "H", "I", "J", "K", "L", "M",
      "N", "O", "P", "Q", "R", "S", "T", "U", "V", "W", "X", "Y", "Z",
      "0", "1", "2", "3", "4", "5", "6", "7", "8", "9", "+", "-", "." }


digits ==
    { "0", "1", "2", "3", "4", "5", "6", "7", "8", "9" }


upper_lower ==
    { <<"A", "a">>, <<"B", "b">>, <<"C", "c">>, <<"D", "d">>, <<"E", "e">>,
      <<"F", "f">>, <<"G", "g">>, <<"H", "h">>, <<"I", "i">>, <<"J", "j">>,
      <<"K", "k">>, <<"L", "l">>, <<"M", "m">>, <<"N", "n">>, <<"O", "o">>,
      <<"P", "p">>, <<"Q", "q">>, <<"R", "r">>, <<"S", "s">>, <<"T", "t">>,
      <<"U", "u">>, <<"V", "v">>, <<"W", "w">>, <<"X", "x">>, <<"Y", "y">>,
      <<"Z", "z">> }

Lower(c) == IF \E p \in upper_lower : p[1] = c
            THEN (CHOOSE p \in upper_lower : p[1] = c)[2]
            ELSE c

LowerStr(s) == [i \in 1..Len(s) |-> Lower(s[i])]

\* s[:n]
Take(s, n) == SubSeq(s, 1, IF n < Len(s) THEN n ELSE Len(s))

\* s[n:] with a 0-based n, as in Python
Drop(s, n) == SubSeq(s, n + 1, Len(s))

\* str.startswith
StartsWith(s, prefix) ==
    /\ Len(prefix) <= Len(s)
    /\ SubSeq(s, 1, Len(prefix)) = prefix

\* c in s
Has(s, c) == \E i \in 1..Len(s) : s[i] = c

\* str.find(c) for a c that occurs in s: the 0-based index of the first one

Find(s, c) == (CHOOSE i \in 1..Len(s) : s[i] = c /\ \A j \in 1..(i - 1) : s[j] # c) - 1

\* urlparse._splitnetloc(url, 2): the end of the netloc, 0-based
NetlocEnd(url) ==
    IF \E i \in 3..Len(url) : url[i] \in {"/", "?", "#"}
    THEN (CHOOSE i \in 3..Len(url) :
              /\ url[i] \in {"/", "?", "#"}
              /\ \A j \in 3..(i - 1) : url[j] \notin {"/", "?", "#"}) - 1
    ELSE Len(url)

\* The scheme step of urlparse.urlsplit: <<scheme, rest of the url>>
SplitScheme(url, default) ==
    IF Has(url, ":") /\ Find(url, ":") > 0
    THEN LET i    == Find(url, ":")
             head == Take(url, i)
             rest == Drop(url, i + 1)
         IN  IF head = Http
             THEN <<LowerStr(head), rest>>
             ELSE IF /\ \A k \in 1..Len(head) : head[k] \in scheme_chars
                     /\ (rest = <<>> \/ \E k \in 1..Len(rest) : rest[k] \notin digits)
                  THEN <<LowerStr(head), rest>>
                  ELSE <<default, url>>
    ELSE <<default, url>>

\* urlparse.urlparse(url, scheme), on strings without "?", "#" and ";"
urlparse(url, default) ==
    LET ss   == SplitScheme(url, default)
        rest == ss[2]
    IN  IF Take(rest, 2) = <<"/", "/">>
        THEN [scheme |-> ss[1],
              netloc |-> SubSeq(rest, 3, NetlocEnd(rest)),
              path   |-> Drop(rest, NetlocEnd(rest))]
        ELSE [scheme |-> ss[1], netloc |-> <<>>, path |-> rest]

\* urlparse.urlunparse, on the same strings
urlunparse(scheme, netloc, path) ==
    LET withNetloc ==
            IF netloc # <<>> \/ (scheme # <<>> /\ scheme \in uses_netloc
                                  /\ Take(path, 2) # <<"/", "/">>)
            THEN <<"/", "/">> \o netloc
                     \o (IF path # <<>> /\ Take(path, 1) # <<"/">>
                         THEN <<"/">> \o path ELSE path)
            ELSE path
    IN  IF scheme # <<>> THEN scheme \o <<":">> \o withNetloc ELSE withNetloc

\* bpath.split('/')[:-1] joined again: the base path up to its last "/"
DirOf(path) ==
    IF Has(path, "/")
    THEN SubSeq(path, 1, CHOOSE i \in 1..Len(path) :
                             path[i] = "/" /\ \A j \in (i + 1)..Len(path) : path[j] # "/")
    ELSE <<>>

\* urlparse.urljoin(base, url)
urljoin(base, url) ==
    IF base = <<>> THEN url
    ELSE IF url = <<>> THEN base
    ELSE LET b == urlparse(base, <<>>)
             u == urlparse(url, b.scheme)
         IN  IF u.scheme # b.scheme \/ u.scheme \notin uses_relative
             THEN url
             ELSE IF u.scheme \in uses_netloc /\ u.netloc # <<>>
             THEN urlunparse(u.scheme, u.netloc, u.path)
             ELSE LET netloc == IF u.scheme \in uses_netloc THEN b.netloc ELSE u.netloc
                  IN  IF Take(u.path, 1) = <<"/">>
                      THEN urlunparse(u.scheme, netloc, u.path)
                      ELSE IF u.path = <<>>
                      THEN urlunparse(u.scheme, netloc, b.path)
                      ELSE urlunparse(u.scheme, netloc, DirOf(b.path) \o u.path)

-----------------------------------------------------------------------------
(* Python values. *)

PyNone  == [t |-> "NoneType", v |-> "None"]
PyTrue  == [t |-> "bool", v |-> "True"]
PyFalse == [t |-> "bool", v |-> "False"]
PyStr(s)  == [t |-> "str", v |-> s]
PyDict(s) == [t |-> "dict", v |-> s]
PyInt(s)  == [t |-> "int", v |-> s]
PyFile  == [t |-> "file", v |-> "<open file>"]
PySet   == [t |-> "set", v |-> "set([1])"]
\* a reference to a dict object of the heap
PyRef(name) == [t |-> "ref", v |-> name]

EmptyDict == PyDict("{}")
Dict1     == PyDict("{'q': 1}")

\* bool(x)
Truthy(x) ==
    /\ x.t # "NoneType"
    /\ ~(x.t = "bool" /\ x.v = "False")
    /\ ~(x.t = "str" /\ x.v = "")
    /\ ~(x.t = "dict" /\ x.v = "{}")

\* The values json can encode, with their encoding
JsonTable ==
    { <<EmptyDict, "{}">>, <<Dict1, "{\"q\": 1}">>, <<PyStr("txt"), "\"txt\"">>,
      <<PyNone, "null">> }

Serializable(x) == \E p \in JsonTable : p[1] = x

\* json.dumps(x), for a serializable x (TypeError otherwise)
json_dumps(x) == PyStr((CHOOSE p \in JsonTable : p[1] = x)[2])

ValidJson(text) == \E p \in JsonTable : p[2] = text

\* response.json(), for a body that is valid JSON (ValueError otherwise)
json_loads(text) == (CHOOSE p \in JsonTable : p[2] = text)[1]

\* dict.pop(key, None) on a header dict
DictPop(d, key) == [n \in (DOMAIN d) \ {key} |-> d[n]]

-----------------------------------------------------------------------------
(* The sets the inputs are drawn from. *)

HostA == <<"h", "t", "t", "p", ":", "/", "/", "a">>
HostB == <<"h", "t", "t", "p", ":", "/", "/", "b", "/", "v", "/">>
NoHost == <<>>

\* The values of solvebio.api_host
ApiHosts == {NoHost, HostA, HostB}

\* The api_host a SolveClient is constructed with
ClientHosts == {NoHost, HostA}

\* The values of solvebio.api_key and of an explicit token
ApiKeys == {PyNone, PyStr(""), PyStr("K")}
Tokens  == {PyNone, PyStr(""), PyStr("E")}

\* What get_credentials() does: raises, returns None, returns (user, token)
StoreOutcomes ==
    { [kind |-> "raise",  value |-> <<>>],
      [kind |-> "return", value |-> <<>>],
      [kind |-> "return", value |-> <<PyStr("u"), PyStr("S")>>] }

\* Paths of 0..MaxSegments segments "x": "", "x", "x/x", ...
RECURSIVE RelPath(_)
RelPath(n) == IF n = 0 THEN <<>>
              ELSE IF n = 1 THEN <<"x">>
              ELSE RelPath(n - 1) \o <<"/", "x">>

RelPaths == {RelPath(n) : n \in 0..MaxSegments}
AbsPaths == {<<"/">> \o RelPath(n) : n \in 1..MaxSegments}

\* The urls the callers pass: relative and absolute paths, urls on the
\* API hosts, urls naming another host (one of them with HostA as a prefix
\* of its text), and a network-path reference.
UrlInputs ==
    RelPaths \cup AbsPaths
    \cup {HostA \o p : p \in AbsPaths}
    \cup {HostB \o <<"x">>,
          HostA \o <<"b">> \o <<"/", "x">>,
          <<"/", "/", "b", "/", "x">>,
          <<"h", "t", "t", "p", ":", "/", "/", "x", "/", "x">>}

MethodInputs == {<<"p", "u", "t">>, <<"D", "E", "L", "E", "T", "E">>}

Absent == [t |-> "absent", v |-> ""]

RawChoices     == {Absent, PyTrue, PyFalse}
FilesChoices   == {Absent, EmptyDict, PyFile}
DataChoices    == {Absent, Dict1, PySet}
HeadersChoices == {Absent, PyRef("caller")}

\* The header dicts a caller owns
CallerDicts ==
    { [n \in {"Content-Type", "X-Trace"} |->
           IF n = "Content-Type" THEN "text/plain" ELSE "1"],
      [n \in {"X-Trace"} |-> "1"] }

Statuses == {199, 200, 204, 301, 302, 399, 400, 404, 500}
Bodies   == {"{\"q\": 1}", "<html>"}
Responses == [status : Statuses, body : Bodies]

\* The exceptions the transport raises: requests.exceptions.RequestException
\* subclasses and others, with and without a message
TransportExceptions ==
    [cls : {"ConnectionError"}, isRequestException : {TRUE}, msg : {"", "refused"}]
    \cup [cls : {"TypeError"}, isRequestException : {FALSE}, msg : {"", "boom"}]

OptNames == {"allow_redirects", "auth", "data", "files", "headers", "params",
             "timeout", "verify"}

\* **kwargs of a call, from the choice made for each option
Kwargs(choice) == [k \in {n \in DOMAIN choice : choice[n] # Absent} |-> choice[k]]

KwInputs ==
    { Kwargs([raw |-> r, files |-> f, data |-> d, headers |-> h]) :
        r \in RawChoices, f \in FilesChoices, d \in DataChoices, h \in HeadersChoices }

NoCall     == [op |-> "none", method |-> <<>>, url |-> <<>>, kw |-> <<>>, token |-> PyNone]
NoResponse == [status |-> 0, body |-> ""]
NoException == [cls |-> "", isRequestException |-> FALSE, msg |-> ""]
NoOutcome  == [kind |-> "none", type |-> "", message |-> <<>>,
               response |-> NoResponse, value |-> PyNone]
NoRequest  == [method |-> <<>>, url |-> <<>>, headers |-> <<>>, data |-> PyNone,
               files |-> PyNone, params |-> PyNone, allow_redirects |-> PyNone,
               timeout |-> PyNone, verify |-> PyNone, auth |-> PyNone,
               wire_headers |-> <<>>]

-----------------------------------------------------------------------------
(* Results of an operation. *)

Return(type, resp, value) ==
    [kind |-> "return", type |-> type, message |-> <<>>,
     response |-> resp, value |-> value]

Raise(type, message, resp) ==
    [kind |-> "raise", type |-> type, message |-> message,
     response |-> resp, value |-> PyNone]

\* raise SolveError(message=..., response=...)
SolveError(message, resp) == Raise("SolveError", message, resp)

-----------------------------------------------------------------------------
(* SolveTokenAuth *)

\* get_credentials()[1] inside try/except: the value, or "nothing" when the
\* lookup or the subscript raises
CredentialLookup ==
    IF store.kind = "return" /\ Len(store.value) >= 2
    THEN [ok |-> TRUE, value |-> store.value[2]]
    ELSE [ok |-> FALSE, value |-> PyNone]

\* Mutation of get_api_key: the credential store is asked before api_key
get_api_key_store_first ==
    IF CredentialLookup.ok THEN CredentialLookup.value
    ELSE IF Truthy(api_key) THEN api_key
    ELSE PyNone

\* SolveTokenAuth._get_api_key
get_api_key ==
    IF Truthy(api_key) THEN api_key
    ELSE IF CredentialLookup.ok THEN CredentialLookup.value
    ELSE PyNone

\* SolveTokenAuth.__init__: self.token
SolveTokenAuth_init(token) == IF Truthy(token) THEN token ELSE get_api_key

\* SolveTokenAuth.__call__: the headers of the prepared request
SolveTokenAuth_call(token, headers) ==
    IF Truthy(token)
    THEN [n \in DOMAIN headers \cup {"Authorization"} |->
              IF n = "Authorization" THEN "Token " \o token.v ELSE headers[n]]
    ELSE headers

-----------------------------------------------------------------------------
(* SolveClient *)

\* SolveClient.__init__: self._headers
SelfHeaders ==
    [n \in {"Content-Type", "Accept", "Accept-Encoding", "User-Agent"} |->
        CASE n = "Content-Type"    -> "application/json"
          [] n = "Accept"          -> "application/json"
          [] n = "Accept-Encoding" -> "gzip,deflate"
          [] n = "User-Agent"      -> "SolveBio Python Client"]

\* The opts literal of request(); 'headers' is a new dict, dict(self._headers)
DefaultHeadersRef == PyRef("fresh")

default_opts ==
    [k \in OptNames |->
        CASE k = "allow_redirects" -> PyTrue
          [] k = "auth"            -> SolveTokenAuth_init(PyNone)
          [] k = "data"            -> EmptyDict
          [] k = "files"           -> PyNone
          [] k = "headers"         -> DefaultHeadersRef
          [] k = "params"          -> EmptyDict
          [] k = "timeout"         -> PyInt("80")
          [] k = "verify"          -> PyTrue]

\* opts.update(kwargs)
Update(opts, kw) ==
    [k \in DOMAIN opts \cup DOMAIN kw |-> IF k \in DOMAIN kw THEN kw[k] ELSE opts[k]]

\* The dict a headers reference denotes
Deref(ref) == IF ref.v = "fresh" THEN heap["self._headers"] ELSE heap[ref.v]

\* str.upper
UpperStr(s) ==
    [i \in 1..Len(s) |->
        IF \E p \in upper_lower : p[2] = s[i]
        THEN (CHOOSE p \in upper_lower : p[2] = s[i])[1]
        ELSE s[i]]

\* api_host = self._api_host or solvebio.api_host
ResolveHost == IF self_api_host # <<>> THEN self_api_host ELSE api_host

\* Mutation of ResolveUrl: the url is appended to the host, not joined
ResolveUrl_concat(host, url) == IF StartsWith(url, host) THEN url ELSE host \o url

\* Lines 201-202: the url handed to the transport
ResolveUrl(host, url) == IF StartsWith(url, host) THEN url ELSE urljoin(host, url)

\* Lines 189-193: the headers and the body after the files test
OutgoingHeaders(opts) ==
    IF Truthy(opts["files"])
    THEN DictPop(Deref(opts["headers"]), "Content-Type")
    ELSE Deref(opts["headers"])

\* Mutation of OutgoingData: the body is JSON-encoded on the files path too
OutgoingData_always_json(opts) ==
    IF Serializable(opts["data"]) THEN json_dumps(opts["data"]) ELSE opts["data"]

OutgoingData(opts) ==
    IF Truthy(opts["files"]) THEN opts["data"] ELSE json_dumps(opts["data"])

\* The heap after lines 189-193: pop acts on the dict opts['headers'] names
HeapAfterPop(opts) ==
    IF opts["headers"].v = "fresh"
    THEN heap
    ELSE [heap EXCEPT ![opts["headers"].v] = OutgoingHeaders(opts)]

DebugRecord(method, url) ==
    [level |-> "debug", text |-> "API %s Request: %s", method |-> method,
     url |-> url, status |-> 0]

InfoRecord(status) ==
    [level |-> "info", text |-> "API Error: %d", method |-> <<>>,
     url |-> <<>>, status |-> status]

\* The call ends before the transport is reached
EndsEarly(rawValue, result, heapAfter) ==
    /\ pc' = "done"
    /\ call' = NoCall
    /\ raw' = rawValue
    /\ outcome' = result
    /\ heap' = heapAfter
    /\ UNCHANGED <<sent, transportCalls, response, exc, log>>

\* requests.request(method, url, **opts) is entered
Dispatch(callrec, method, url, opts) ==
    /\ pc' = "waiting"
    /\ call' = callrec
    /\ raw' = PyFalse
    /\ heap' = HeapAfterPop(opts)
    /\ log' = <<DebugRecord(method, url)>>
    /\ sent' = [method          |-> method,
                url             |-> url,
                headers         |-> OutgoingHeaders(opts),
                data            |-> OutgoingData(opts),
                files           |-> opts["files"],
                params          |-> opts["params"],
                allow_redirects |-> opts["allow_redirects"],
                timeout         |-> opts["timeout"],
                verify          |-> opts["verify"],
                auth            |-> opts["auth"],
                wire_headers    |-> SolveTokenAuth_call(opts["auth"],
                                                        OutgoingHeaders(opts))]
    /\ transportCalls' = transportCalls + 1
    /\ UNCHANGED <<response, exc, outcome>>

\* SolveClient.request, lines 168-213, up to the entry into the transport
request_body(callrec, method, url, kw) ==
    IF "raw" \in DOMAIN kw
    THEN \* opts.pop('raw') on the opts literal, which has no 'raw' key
         EndsEarly(kw["raw"], Raise("KeyError", <<"'raw'">>, NoResponse), heap)
    ELSE LET opts == Update(default_opts, kw)
             host == ResolveHost
         IN  IF ~Truthy(opts["files"]) /\ ~Serializable(opts["data"])
             THEN EndsEarly(PyFalse,
                            Raise("TypeError", <<opts["data"].v, " is not JSON serializable">>,
                                  NoResponse),
                            heap)
             ELSE IF host = <<>>
             THEN EndsEarly(PyFalse,
                            SolveError(<<"No SolveBio API host is set">>, NoResponse),
                            HeapAfterPop(opts))
             ELSE Dispatch(callrec, UpperStr(method), ResolveUrl(host, url), opts)

Idle == pc = "idle"

Env == <<api_key, api_host, store, self_api_host>>

\* SolveClient.request(method, url, **kwargs)
request ==
    /\ Idle
    /\ \E method \in MethodInputs, url \in UrlInputs, kw \in KwInputs :
          request_body([op |-> "request", method |-> method, url |-> url,
                        kw |-> kw, token |-> PyNone],
                       method, url, kw)
    /\ UNCHANGED Env

\* SolveClient.get(url, params, **kwargs)
get ==
    /\ Idle
    /\ \E url \in UrlInputs, params \in {EmptyDict, Dict1}, kw \in KwInputs :
          LET kwargs == Update(kw, [params |-> params])
          IN  request_body([op |-> "get", method |-> <<"G", "E", "T">>, url |-> url,
                            kw |-> kwargs, token |-> PyNone],
                           <<"G", "E", "T">>, url, kwargs)
    /\ UNCHANGED Env

\* The **kwargs post can be called with: data is its positional parameter,
\* so a call that also passes data= is refused by Python before post runs
PostKwInputs == {kw \in KwInputs : "data" \notin DOMAIN kw}

\* SolveClient.post(url, data, **kwargs)
post ==
    /\ Idle
    /\ \E url \in UrlInputs, data \in DataChoices \ {Absent}, kw \in PostKwInputs :
          LET kwargs == Update(kw, [data |-> data])
          IN  request_body([op |-> "post", method |-> <<"P", "O", "S", "T">>, url |-> url,
                            kw |-> kwargs, token |-> PyNone],
                           <<"P", "O", "S", "T">>, url, kwargs)
    /\ UNCHANGED Env

\* _handle_api_error(response): the log records and the exception
handle_api_error_log(resp) ==
    IF resp.status \in {400, 401, 403, 404} THEN <<>> ELSE <<InfoRecord(resp.status)>>

\* Mutation of handle_api_error: the response is left out of the error
handle_api_error_no_response(resp) == SolveError(<<>>, NoResponse)

handle_api_error(resp) == SolveError(<<>>, resp)

\* Mutation of NetworkErrorText: the message of the exception is left out
NetworkErrorText_no_message(e) ==
    IF e.isRequestException
    THEN <<e.cls, ": ">>
    ELSE <<"A ", e.cls, " was raised">>

\* _handle_request_error(e): the pieces of the message, in order
NetworkErrorText(e) ==
    IF e.isRequestException
    THEN <<e.cls, ": ", e.msg>>
    ELSE <<"A ", e.cls, " was raised">>
         \o (IF e.msg # ""
             THEN <<" with error message ", e.msg>>
             ELSE <<" with no error message">>)

handle_request_error(e) ==
    SolveError(
        <<IF e.isRequestException
          THEN "SolveError.default_message"
          ELSE "Unexpected error communicating with SolveBio."
         >> \o <<"\n\n(Network error: ">> \o NetworkErrorText(e) \o <<")">>,
        NoResponse)

\* Lines 218-225: what request does with the response of the transport
Classify(rawValue, resp) ==
    IF ~(200 <= resp.status /\ resp.status < 400)
    THEN handle_api_error(resp)
    ELSE IF Truthy(rawValue) \/ resp.status \in {204, 301, 302}
    THEN Return("response", resp, PyNone)
    ELSE IF ValidJson(resp.body)
    THEN Return("json", NoResponse, json_loads(resp.body))
    ELSE Raise("ValueError", <<"No JSON object could be decoded">>, NoResponse)

ClassifyLog(resp) ==
    IF ~(200 <= resp.status /\ resp.status < 400)
    THEN handle_api_error_log(resp)
    ELSE <<>>

\* requests.request returns a response to the blocked call
request_returns ==
    /\ pc = "waiting"
    /\ \E resp \in Responses :
          /\ response' = resp
          /\ outcome' = Classify(raw, resp)
          /\ log' = log \o ClassifyLog(resp)
    /\ pc' = "done"
    /\ call' = NoCall
    /\ sent' = NoRequest
    /\ UNCHANGED <<Env, heap, raw, transportCalls, exc>>

\* requests.request raises inside the blocked call
request_raises ==
    /\ pc = "waiting"
    /\ \E e \in TransportExceptions :
          /\ exc' = e
          /\ outcome' = handle_request_error(e)
    /\ pc' = "done"
    /\ call' = NoCall
    /\ sent' = NoRequest
    /\ UNCHANGED <<Env, heap, raw, transportCalls, response, log>>

\* SolveTokenAuth(token) constructed by a caller
NewSolveTokenAuth ==
    /\ Idle
    /\ \E token \in Tokens :
          /\ call' = [op |-> "SolveTokenAuth", method |-> <<>>, url |-> <<>>,
                      kw |-> <<>>, token |-> token]
          /\ outcome' = Return("SolveTokenAuth", NoResponse, SolveTokenAuth_init(token))
    /\ pc' = "done"
    /\ UNCHANGED <<Env, heap, raw, sent, transportCalls, response, exc, log>>

\* The caller has the result and goes on
Finish ==
    /\ pc = "done"
    /\ pc' = "idle"
    /\ call' = NoCall
    /\ raw' = PyFalse
    /\ sent' = NoRequest
    /\ transportCalls' = 0
    /\ response' = NoResponse
    /\ exc' = NoException
    /\ outcome' = NoOutcome
    /\ log' = <<>>
    /\ UNCHANGED <<Env, heap>>

CallVars == <<pc, call, raw, sent, transportCalls, response, exc, outcome, log>>

\* The surroundings write the process configuration between calls
SetApiKey ==
    /\ Idle
    /\ \E k \in ApiKeys : api_key' = k
    /\ UNCHANGED <<api_host, store, self_api_host, heap, CallVars>>

SetApiHost ==
    /\ Idle
    /\ \E h \in ApiHosts : api_host' = h
    /\ UNCHANGED <<api_key, store, self_api_host, heap, CallVars>>

\* The persisted credentials change
StoreChanges ==
    /\ Idle
    /\ \E s \in StoreOutcomes : store' = s
    /\ UNCHANGED <<api_key, api_host, self_api_host, heap, CallVars>>

\* The caller fills its header dict anew
CallerSetsHeaders ==
    /\ Idle
    /\ \E d \in CallerDicts : heap' = [heap EXCEPT !["caller"] = d]
    /\ UNCHANGED <<Env, CallVars>>

Init ==
    /\ api_key = PyNone
    /\ api_host = NoHost
    /\ store \in StoreOutcomes
    /\ self_api_host \in ClientHosts
    /\ heap = [n \in {"self._headers", "caller"} |->
                  IF n = "self._headers" THEN SelfHeaders
                  ELSE CHOOSE d \in CallerDicts : "Content-Type" \in DOMAIN d]
    /\ pc = "idle"
    /\ call = NoCall
    /\ raw = PyFalse
    /\ sent = NoRequest
    /\ transportCalls = 0
    /\ response = NoResponse
    /\ exc = NoException
    /\ outcome = NoOutcome
    /\ log = <<>>

Next ==
    \/ request
    \/ get
    \/ post
    \/ request_returns
    \/ request_raises
    \/ NewSolveTokenAuth
    \/ Finish
    \/ SetApiKey
    \/ SetApiHost
    \/ StoreChanges
    \/ CallerSetsHeaders

Spec == Init /\ [][Next]_vars

-----------------------------------------------------------------------------
(* Properties.                                                             *)

\* A call of request/get/post has ended
RequestDone == pc = "done" /\ outcome.type # "SolveTokenAuth"

\* The transport returned to the call that has ended
Completed == pc = "done" /\ response # NoResponse

InRange(status) == 200 <= status /\ status < 400

\* C1: for every call whose transport call completes with a status code in
\* [200, 400), the result is the untouched response object if raw was
\* requested or the status is 204, 301 or 302, and otherwise the
\* JSON-decoded response body.
C1_ResultShape ==
    (Completed /\ InRange(response.status)) =>
        IF raw = PyTrue \/ response.status \in {204, 301, 302}
        THEN outcome.kind = "return" /\ outcome.type = "response"
             /\ outcome.response = response
        ELSE outcome.kind = "return" /\ outcome.type = "json"
             /\ \E p \in JsonTable : p[2] = response.body /\ outcome.value = p[1]

\* C2: for every call whose transport call completes with a status code
\* outside [200, 400), request raises a SolveError that carries the full
\* response object and returns nothing; the error is of the same kind for
\* 400/401/403/404 as for every other such code.
C2_ApiError ==
    (Completed /\ ~InRange(response.status)) =>
        /\ outcome.kind = "raise"
        /\ outcome.type = "SolveError"
        /\ outcome.response = response
        /\ outcome.message = <<>>
        /\ outcome.value = PyNone

C2_Witness ==
    /\ Completed
    /\ response.status = 500
    /\ outcome.type = "SolveError"
    /\ outcome.response.status = 500
    /\ \E i \in 1..Len(log) : log[i].level = "info" /\ log[i].status = 500

\* C3: when neither the client's host override nor solvebio.api_host is set,
\* request fails with the configuration error and the transport is invoked
\* zero times, whatever the method, url and options are.
C3_NoHostConfigurationError ==
    (RequestDone /\ self_api_host = NoHost /\ api_host = NoHost) =>
        /\ outcome.kind = "raise"
        /\ outcome.type = "SolveError"
        /\ outcome.message = <<"No SolveBio API host is set">>
        /\ transportCalls = 0

\* s occurs among the pieces of a message
Contains(message, s) == \E i \in 1..Len(message) : message[i] = s

\* C4: an exception raised by the transport is re-raised as a SolveError
\* whose message contains the exception's type name and its message and
\* which carries no response; the transport was invoked exactly once.
C4_TransportError ==
    (pc = "done" /\ exc # NoException) =>
        /\ outcome.kind = "raise"
        /\ outcome.type = "SolveError"
        /\ outcome.response = NoResponse
        /\ Contains(outcome.message, exc.cls)
        /\ (exc.msg # "" => Contains(outcome.message, exc.msg))
        /\ transportCalls = 1

C4_Witness ==
    /\ pc = "done"
    /\ exc.cls = "TypeError"
    /\ exc.msg = "boom"
    /\ outcome.type = "SolveError"
    /\ transportCalls = 1

\* A token or key that is set: neither None nor the empty string
HasValue(x) == x # PyNone /\ x # PyStr("")

LookupSucceeds == store.kind = "return" /\ store.value # <<>>

\* C5: credential resolution never raises and follows strict precedence:
\* the explicit token if one was passed, else solvebio.api_key if set, else
\* the second element of the credential-store lookup if it succeeds, else
\* None.
C5_CredentialPrecedence ==
    (pc = "done" /\ call.op = "SolveTokenAuth") =>
        /\ outcome.kind = "return"
        /\ IF HasValue(call.token) THEN outcome.value = call.token
           ELSE IF HasValue(api_key) THEN outcome.value = api_key
           ELSE IF LookupSucceeds THEN outcome.value = store.value[2]
           ELSE outcome.value = PyNone

C5_Witness ==
    /\ pc = "done"
    /\ call.op = "SolveTokenAuth"
    /\ call.token = PyStr("")
    /\ api_key = PyStr("K")
    /\ LookupSucceeds
    /\ outcome.value = PyStr("K")

\* C6: every call ends in exactly one of: the JSON-decoded body, the raw
\* response object, a configuration error, a transport error, an API error.
C6_OutcomeTaxonomy ==
    RequestDone =>
        \/ outcome.kind = "return" /\ outcome.type \in {"json", "response"}
        \/ outcome.kind = "raise" /\ outcome.type = "SolveError"

\* C7: a call modifies neither the client's default header set nor a
\* headers mapping supplied by the caller, also when files are uploaded.
C7_HeadersNotModified ==
    [][(pc = "idle" /\ pc' # "idle") => heap' = heap]_vars

\* The files and data a call was given, with the defaults of request
GivenFiles == IF "files" \in DOMAIN call.kw THEN call.kw["files"] ELSE PyNone
GivenData  == IF "data" \in DOMAIN call.kw THEN call.kw["data"] ELSE EmptyDict
GivenHeaders ==
    IF "headers" \in DOMAIN call.kw THEN heap["caller"] ELSE heap["self._headers"]

FilePresent == GivenFiles \notin {PyNone, EmptyDict}

\* C8: for every dispatched call, with a file payload the headers handed to
\* the transport have no Content-Type and data is handed over as given;
\* without one the body is the JSON encoding of data and Content-Type is
\* kept.
C8_FilesOrJson ==
    (pc = "waiting") =>
        IF FilePresent
        THEN /\ "Content-Type" \notin DOMAIN sent.headers
             /\ sent.data = GivenData
        ELSE /\ \E p \in JsonTable : p[1] = GivenData /\ sent.data = PyStr(p[2])
             /\ sent.headers = GivenHeaders

C8_Witness ==
    /\ pc = "waiting"
    /\ sent.files = PyFile
    /\ sent.data = Dict1
    /\ "Content-Type" \notin DOMAIN sent.headers
    /\ "Accept" \in DOMAIN sent.headers

\* scheme://netloc of the two API hosts of the model
OriginOf(host) == IF host = HostA THEN HostA ELSE SubSeq(HostB, 1, 8)

\* C9: the host is the client's override when one exists, else
\* solvebio.api_host; a url that begins with the host is dispatched as it
\* is, any other url is dispatched joined to the host as a base-relative
\* url (an absolute path replaces the path of the host).
C9_UrlResolution ==
    (pc = "waiting") =>
        LET host == IF self_api_host # NoHost THEN self_api_host ELSE api_host
        IN  /\ host # NoHost
            /\ IF Len(call.url) >= Len(host) /\ SubSeq(call.url, 1, Len(host)) = host
               THEN sent.url = call.url
               ELSE /\ sent.url = urljoin(host, call.url)
                    /\ call.url \in AbsPaths => sent.url = OriginOf(host) \o call.url

C9_Witness ==
    /\ pc = "waiting"
    /\ self_api_host = HostA
    /\ api_host = HostB
    /\ call.url = <<"/", "x">>
    /\ sent.url = HostA \o <<"/", "x">>

\* C10: every request dispatched with the token in its Authorization header
\* targets a url on the resolved API host.
C10_TokenStaysOnHost ==
    (pc = "waiting" /\ "Authorization" \in DOMAIN sent.wire_headers) =>
        LET host   == IF self_api_host # NoHost THEN self_api_host ELSE api_host
            target == urlparse(sent.url, <<>>)
            base   == urlparse(host, <<>>)
        IN  target.scheme = base.scheme /\ target.netloc = base.netloc

====
